---- MODULE Spec2Model ----
(***************************************************************************)
(* A model of the three name-generation scripts of the repository:         *)
(*   "creator" = src/name-creator.py                                       *)
(*   "engine"  = src/naming_engine.py                                      *)
(*   "crazy"   = src/naming-crazy.py                                       *)
(*                                                                         *)
(* Text is modelled as a sequence of tokens.  Each token stands for a      *)
(* fixed piece of text, so that the regular expressions, the strip calls   *)
(* and json.loads of the code are computed on the token sequence:          *)
(*   "J"   ```json            "T"   ```                                    *)
(*   "{"   {                  "}"   }                                      *)
(*   "_"   a blank            "w"   a prose word                           *)
(*   "S"   the word Score     ":"   :                                      *)
(*   "n9"  the number 9       "n12" the number 12                          *)
(*   "c"   "critique": "Good"                                              *)
(*   "s7"  "score": 7         "s11" "score": 11     "sf"  "score": 7.9     *)
(*   "sq8" "score": "8"       "sqx" "score": "abc"  "st"  "score": true    *)
(*   "sl"  "score": [3]       "sn"  "score": null                          *)
(*   "m"   "summary": "Fine"  "v"   "verdict": "Recommended"               *)
(*   "r"   "ranked_finalists": [...]   (its value is given beside the text) *)
(* Members of a JSON object are written one after the other; the commas    *)
(* between them are part of the member tokens.                             *)
(***************************************************************************)
EXTENDS Naturals, Integers, Sequences, FiniteSets, TLC

VARIABLES
    script,                      \* which of the three scripts runs
    pc,                          \* position in main (or in the function under study)
    GOOGLE_API_CONFIGURED,       \* the module-level flag
    initial_generated_names,
    approved_names,
    craziness_level,             \* naming-crazy.py: the level the user entered
    gi,                          \* index of the generation batch
    fi,                          \* index of the filter loop
    rejected,                    \* names the web check reported problematic
    final_names_for_critique,
    ni,                          \* index of the name loop
    ci,                          \* index of the critic loop
    current_name_critiques,      \* critiques of the current name
    all_results_for_report,
    data_for_global_ranker,
    final_ranked_order_from_cro,
    report,                      \* the report written, or NoReport
    log,                         \* the external calls made so far, in order
    content,                     \* the last model response
    json_str,                    \* the candidate handed to json.loads in the last call
    ret                          \* the last value returned by the function called

vars == <<script, pc, GOOGLE_API_CONFIGURED, initial_generated_names, approved_names,
          craziness_level, gi, fi, rejected, final_names_for_critique, ni, ci, current_name_critiques,
          all_results_for_report, data_for_global_ranker, final_ranked_order_from_cro,
          report, log, content, json_str, ret>>

selectVars == <<initial_generated_names, approved_names, craziness_level, gi, fi,
                rejected, final_names_for_critique>>
loopVars == <<ni, ci, current_name_critiques, all_results_for_report,
              data_for_global_ranker, final_ranked_order_from_cro>>
callVars == <<content, json_str, ret>>

Scripts == {"creator", "engine", "crazy"}

(***************************************************************************)
(* Optional values: Python's None and an integer.                          *)
(***************************************************************************)
NoneV == [none |-> TRUE, v |-> 0]
Some(n) == [none |-> FALSE, v |-> n]

(***************************************************************************)
(* Text helpers.                                                           *)
(***************************************************************************)
Blank == {"_"}
\* the characters of strip('{}[]().,: "\'') that are tokens of their own
PunctTokens == {"{", "}", ":", "_"}
\* tokens whose text starts with a quote, and tokens whose text ends with a
\* quote or a bracket: strip('{}[]().,: "\'') removes that character
QuoteLead == {"c", "s7", "s11", "sf", "sq8", "sqx", "st", "sl", "sn", "m", "v", "r"}
QuoteTrail == {"c", "sq8", "sqx", "sl", "m", "v", "r"}

RECURSIVE LStrip(_, _)
LStrip(s, chars) ==
    IF s # <<>> /\ Head(s) \in chars THEN LStrip(Tail(s), chars) ELSE s

RECURSIVE RStrip(_, _)
RStrip(s, chars) ==
    IF s # <<>> /\ s[Len(s)] \in chars THEN RStrip(SubSeq(s, 1, Len(s) - 1), chars) ELSE s

\* str.strip(): blanks off both ends
Strip(s) == RStrip(LStrip(s, Blank), Blank)

\* str.strip('{}[]().,: "\''): whole punctuation tokens off both ends, then the
\* quote (or bracket) that begins or ends the outermost remaining token
PunctStrip(s) ==
    LET a == RStrip(LStrip(s, PunctTokens), PunctTokens)
        b == IF a # <<>> /\ Head(a) \in QuoteLead
             THEN <<"l/" \o Head(a)>> \o Tail(a) ELSE a
        n == Len(b)
    IN  IF a # <<>> /\ a[Len(a)] \in QuoteTrail
        THEN SubSeq(b, 1, n - 1) \o <<b[n] \o "/r">> ELSE b

startswith(s, t) == s # <<>> /\ Head(s) = t
endswith(s, t) == s # <<>> /\ s[Len(s)] = t

\* the first index >= i whose token is not a blank (Len(s) + 1 if none)
RECURSIVE SkipBlanks(_, _)
SkipBlanks(s, i) ==
    IF i <= Len(s) /\ s[i] \in Blank THEN SkipBlanks(s, i + 1) ELSE i

NoMatch == <<>>

\* re.search(r'```json\s*(\{[\s\S]*?\})\s*```', content): group 1 of the leftmost
\* match, or NoMatch.  The closing ``` also matches the start of a ```json.
FencedAt(s, i) ==
    LET j == SkipBlanks(s, i + 1)
        ks == {k \in (j + 1)..Len(s) :
                 /\ s[k] = "}"
                 /\ SkipBlanks(s, k + 1) <= Len(s)
                 /\ s[SkipBlanks(s, k + 1)] \in {"T", "J"}}
    IN  IF s[i] = "J" /\ j <= Len(s) /\ s[j] = "{" /\ ks # {}
        THEN SubSeq(s, j, CHOOSE k \in ks : \A k2 \in ks : k <= k2)
        ELSE NoMatch

SearchFenced(s) ==
    LET is == {i \in 1..Len(s) : FencedAt(s, i) # NoMatch}
    IN  IF is = {} THEN NoMatch ELSE FencedAt(s, CHOOSE i \in is : \A i2 \in is : i <= i2)

\* re.search(r'(\{[\s\S]*?\})', content): from the first { that has a } after it
\* to the first } after it
SearchLoose(s) ==
    LET is == {i \in 1..Len(s) : s[i] = "{" /\ \E k \in (i + 1)..Len(s) : s[k] = "}"}
        i0 == CHOOSE i \in is : \A i2 \in is : i <= i2
        ks == {k \in (i0 + 1)..Len(s) : s[k] = "}"}
    IN  IF is = {} THEN NoMatch
        ELSE SubSeq(s, i0, CHOOSE k \in ks : \A k2 \in ks : k <= k2)

\* r'\b(?:score|rating)[\s:]*(\b(?:[1-9]|10)\b)': the word, blanks and colons (at
\* least one, for the word boundary before the number), a number in 1..10.
\* ScoreEnd(s, i) is the index of the number of a match starting at i, 0 if none.
ScoreSep == {"_", ":"}
RECURSIVE SkipSep(_, _)
SkipSep(s, i) ==
    IF i <= Len(s) /\ s[i] \in ScoreSep THEN SkipSep(s, i + 1) ELSE i

NumberValue(t) == IF t = "n9" THEN 9 ELSE IF t = "n12" THEN 12 ELSE 0

ScoreEnd(s, i) ==
    LET j == SkipSep(s, i + 1)
    IN  IF s[i] = "S" /\ j > i + 1 /\ j <= Len(s) /\ NumberValue(s[j]) \in 1..10
        THEN j ELSE 0

\* re.search(score pattern, content): the number of the leftmost match, or None
SearchScore(s) ==
    LET is == {i \in 1..Len(s) : ScoreEnd(s, i) # 0}
        i0 == CHOOSE i \in is : \A i2 \in is : i <= i2
    IN  IF is = {} THEN NoneV ELSE Some(NumberValue(s[ScoreEnd(s, i0)]))

\* re.sub(score pattern, '', content): every match removed
RECURSIVE SubScore(_, _)
SubScore(s, i) ==
    IF i > Len(s) THEN <<>>
    ELSE IF ScoreEnd(s, i) # 0 THEN SubScore(s, ScoreEnd(s, i) + 1)
    ELSE <<s[i]>> \o SubScore(s, i + 1)

(***************************************************************************)
(* json.loads on a candidate, and dict.get on its result.                  *)
(***************************************************************************)
Members == {"c", "s7", "s11", "sf", "sq8", "sqx", "st", "sl", "sn", "m", "v", "r"}

MemberKey(t) ==
    IF t = "c" THEN "critique"
    ELSE IF t = "m" THEN "summary"
    ELSE IF t = "v" THEN "verdict"
    ELSE IF t = "r" THEN "ranked_finalists"
    ELSE "score"

\* the value of a member: its JSON type and, for a number, a numeric string or a
\* bool, the integer int() makes of it
Absent == [t |-> "absent", v |-> 0]
MemberVal(t) ==
    CASE t = "s7"  -> [t |-> "int", v |-> 7]
      [] t = "s11" -> [t |-> "int", v |-> 11]
      [] t = "sf"  -> [t |-> "float", v |-> 7]
      [] t = "sq8" -> [t |-> "numstr", v |-> 8]
      [] t = "sqx" -> [t |-> "str", v |-> 0]
      [] t = "st"  -> [t |-> "bool", v |-> 1]
      [] t = "sl"  -> [t |-> "list", v |-> 0]
      [] t = "sn"  -> [t |-> "null", v |-> 0]
      [] OTHER     -> [t |-> "str", v |-> 0]

\* json.loads(json_str) succeeds: an object whose body holds members only
JsonValid(s) ==
    /\ Len(s) >= 2
    /\ s[1] = "{"
    /\ s[Len(s)] = "}"
    /\ \A i \in 2..(Len(s) - 1) : s[i] \in Members \cup Blank

\* data.get(key): the value of the last member with that key, Absent if none
DictGet(s, key) ==
    LET is == {i \in 1..Len(s) : s[i] \in Members /\ MemberKey(s[i]) = key}
    IN  IF is = {} THEN Absent
        ELSE MemberVal(s[CHOOSE i \in is : \A i2 \in is : i >= i2])

(***************************************************************************)
(* A call of ollama.chat ends in one of three ways: it returns a response  *)
(* with a text ("ok"), it raises ("raise"), or it returns a response that  *)
(* lacks the 'message' or 'content' key ("nokey").                         *)
(***************************************************************************)
OkResp(text) == [kind |-> "ok", text |-> text]
RaiseResp == [kind |-> "raise", text |-> <<>>]
NoKeyResp == [kind |-> "nokey", text |-> <<>>]

(***************************************************************************)
(* critique_name_with_personality.                                         *)
(***************************************************************************)
\* a critique: a tag and, for raw text, the text
Crit(tag, txt) == [tag |-> tag, txt |-> txt]
CritJson == Crit("json", <<>>)          \* the object's 'critique' string
CritNone == Crit("none", <<>>)          \* None
CritDefault == Crit("default", <<>>)    \* "Critique not provided or malformed."
CritFailed == Crit("failed", <<>>)      \* "Critique parsing failed."
CritError == Crit("error", <<>>)        \* "Error during critique."
CritRaw(txt) == Crit("raw", txt)

Returned(critique, score) == [kind |-> "return", critique |-> critique, score |-> score]
\* an exception leaves the function
Propagated == [kind |-> "propagate", critique |-> CritNone, score |-> NoneV]

Cand(src, str) == [src |-> src, str |-> str]

\* JsonCandidate with the loose scan tried before the bare object
JsonCandidateLooseFirst(s, c) ==
    IF SearchFenced(c) # NoMatch THEN Cand("fenced", SearchFenced(c))
    ELSE IF SearchLoose(c) # NoMatch THEN Cand("loose", SearchLoose(c))
    ELSE IF startswith(c, "{") /\ endswith(c, "}") THEN Cand("bare", c)
    ELSE Cand("none", NoMatch)

\* the choice of json_str from the stripped content c
JsonCandidate(s, c) ==
    IF s = "creator"
    THEN IF SearchFenced(c) # NoMatch THEN Cand("fenced", SearchFenced(c))
         ELSE IF startswith(c, "{") /\ endswith(c, "}") THEN Cand("bare", c)
         ELSE IF SearchLoose(c) # NoMatch THEN Cand("loose", SearchLoose(c))
         ELSE Cand("none", NoMatch)
    ELSE IF startswith(c, "{") /\ endswith(c, "}") THEN Cand("bare", c)
         ELSE IF SearchFenced(c) # NoMatch THEN Cand("fenced", SearchFenced(c))
         ELSE IF SearchLoose(c) # NoMatch THEN Cand("loose", SearchLoose(c))
         ELSE Cand("none", NoMatch)

\* int(score_val): the integer, or the exception raised
PyInt(val) ==
    IF val.t \in {"int", "float", "numstr", "bool"} THEN [exc |-> "no", v |-> val.v]
    ELSE IF val.t = "str" THEN [exc |-> "ValueError", v |-> 0]
    ELSE [exc |-> "TypeError", v |-> 0]

\* str(score_val).isdigit()
StrIsDigit(val) == val.t \in {"int", "numstr"} /\ val.v >= 0

\* "if 1 <= score_int <= 10" without the test
InRangeUnchecked(v) == TRUE
\* "if 1 <= score_int <= 10"
InRange(v) == v >= 1 /\ v <= 10

\* the score of the parsed object in name-creator.py and naming_engine.py;
\* [exc |-> "TypeError"] when int() raises what the inner try does not catch
ScoreByInt(val) ==
    IF val.t \in {"absent", "null"} THEN [exc |-> "no", score |-> NoneV]
    ELSE IF PyInt(val).exc = "no"
         THEN [exc |-> "no",
               score |-> IF InRange(PyInt(val).v) THEN Some(PyInt(val).v) ELSE NoneV]
    ELSE IF PyInt(val).exc = "ValueError" THEN [exc |-> "no", score |-> NoneV]
    ELSE [exc |-> "TypeError", score |-> NoneV]

\* the score of the parsed object in naming-crazy.py
ScoreByIsDigit(val) ==
    IF /\ val.t \notin {"absent", "null"}
       /\ val.t \in {"int", "bool", "float", "str", "numstr"}
       /\ StrIsDigit(val)
       /\ InRange(val.v)
    THEN Some(val.v) ELSE NoneV

\* a fallback that gives up at once: the stripped content and no score
CritiqueFallbackGivesUp(s, c) == Returned(CritRaw(c), NoneV)

\* the except (json.JSONDecodeError ...) branch, on the stripped content c
CritiqueFallback(s, c) ==
    LET score_fallback == SearchScore(c)
    IN  IF s = "creator"
        THEN Returned(CritRaw(IF score_fallback.none THEN c ELSE Strip(SubScore(c, 1))),
                      score_fallback)
        ELSE IF s = "engine"
        THEN LET cf == IF score_fallback.none THEN c ELSE PunctStrip(SubScore(c, 1))
             IN  Returned(IF cf = <<>> THEN CritFailed ELSE CritRaw(cf), score_fallback)
        ELSE Returned(IF c = <<>> THEN CritFailed ELSE CritRaw(PunctStrip(SubScore(c, 1))),
                      score_fallback)

\* the try body after json.loads succeeded on json_str
CritiqueParsed(s, js) ==
    LET cv == DictGet(js, "critique")
        sv == DictGet(js, "score")
    IN  IF s = "creator"
        THEN IF ScoreByInt(sv).exc # "no" THEN Returned(CritError, NoneV)
             ELSE Returned(IF cv = Absent THEN CritDefault ELSE CritJson, ScoreByInt(sv).score)
        ELSE IF s = "engine"
        THEN IF ScoreByInt(sv).exc # "no" THEN Returned(CritError, NoneV)
             ELSE Returned(IF cv = Absent THEN CritNone ELSE CritJson, ScoreByInt(sv).score)
        ELSE Returned(IF cv = Absent THEN CritNone ELSE CritJson, ScoreByIsDigit(sv))

critique_name_with_personality(s, resp) ==
    IF resp.kind = "raise" THEN Returned(CritError, NoneV)
    ELSE IF resp.kind = "nokey"
    THEN \* KeyError: name-creator.py catches it as Exception; the other two catch
         \* it with JSONDecodeError and read content, which is not bound yet
         IF s = "creator" THEN Returned(CritError, NoneV) ELSE Propagated
    ELSE LET c == Strip(resp.text)
             js == JsonCandidate(s, c).str
         IN  IF js # NoMatch /\ JsonValid(js) THEN CritiqueParsed(s, js)
             ELSE CritiqueFallback(s, c)

(***************************************************************************)
(* The responses a critic may give.  A response text is                    *)
(*     prose, score phrase, opening fence, body, closing fence, prose      *)
(* each part drawn from a small set (and possibly empty).                  *)
(***************************************************************************)
MaxProse == 1

ProseTokens == {"w", "{", "}", "_"}

SeqsUpTo(S, n) == UNION {[1..k -> S] : k \in 0..n}

Prose == SeqsUpTo(ProseTokens, MaxProse)

\* "Score: 9", "Score9", "Score 12"
Phrases == {<<>>, <<"S", ":", "_", "n9">>, <<"S", "n9">>, <<"S", "_", "n12">>}

Opens == {<<>>, <<"J", "_">>}
Closes == {<<>>, <<"T">>}

ScoreMembers == {"s7", "s11", "sf", "sq8", "sqx", "st", "sl", "sn"}

\* well-formed objects with or without a critique and a score
Objects ==
    {<<"{">> \o cm \o sm \o <<"}">> :
        cm \in {<<>>, <<"c">>}, sm \in {<<>>} \cup {<<t>> : t \in ScoreMembers}}

\* an unterminated object, braces around prose, an object with a nested object
Malformed == {<<"{", "c", "s7">>, <<"{", "w", "}">>, <<"{", "c", "{", "}", "s7", "}">>}

Bodies == {<<>>} \cup Objects \cup Malformed

CriticTexts ==
    {pre \o ph \o op \o b \o cl \o post :
        pre \in Prose, ph \in Phrases, op \in Opens, b \in Bodies, cl \in Closes,
        post \in Prose}

CriticResponses == {OkResp(t) : t \in CriticTexts} \cup {RaiseResp, NoKeyResp}

(***************************************************************************)
(* Values of the variables before main has set them.                       *)
(***************************************************************************)
NoReport == [written |-> FALSE, names |-> <<>>]
NoRet == [kind |-> "none", critique |-> CritNone, score |-> NoneV]
NoResp == [kind |-> "none", text |-> <<>>]
NoCand == Cand("none", NoMatch)

MainLocalsUnset ==
    /\ initial_generated_names = <<>>
    /\ approved_names = <<>>
    /\ craziness_level = 0
    /\ gi = 0
    /\ fi = 0
    /\ rejected = {}
    /\ final_names_for_critique = <<>>
    /\ ni = 0
    /\ ci = 0
    /\ current_name_critiques = <<>>
    /\ all_results_for_report = <<>>
    /\ data_for_global_ranker = <<>>
    /\ final_ranked_order_from_cro = <<>>
    /\ report = NoReport
    /\ log = <<>>

(***************************************************************************)
(* SpecCritique: one call of critique_name_with_personality on every       *)
(* response of CriticResponses, in each script.                            *)
(***************************************************************************)
InitCritique ==
    /\ script \in Scripts
    /\ pc = "call"
    /\ GOOGLE_API_CONFIGURED = FALSE
    /\ MainLocalsUnset
    /\ content \in CriticResponses
    /\ json_str = NoCand
    /\ ret = NoRet

CallCritique ==
    /\ pc = "call"
    /\ pc' = "returned"
    /\ json_str' = IF content.kind = "ok"
                   THEN JsonCandidate(script, Strip(content.text)) ELSE NoCand
    /\ ret' = critique_name_with_personality(script, content)
    /\ UNCHANGED <<script, GOOGLE_API_CONFIGURED, selectVars, loopVars, report, log, content>>

NextCritique == CallCritique

SpecCritique == InitCritique /\ [][NextCritique]_vars

(***************************************************************************)
(* The pipeline of main.  The sizes of the code (30 or 15 names to         *)
(* critique out of 60 generated, 20 names per batch of naming-crazy.py,    *)
(* four critics) are scaled down; the loops are the code's.                *)
(***************************************************************************)
Names == {"a", "b", "c"}

\* 30 in name-creator.py, 15 in naming_engine.py and naming-crazy.py
MAX_NAMES_TO_CRITIQUE == 2
\* 60 in name-creator.py and naming_engine.py: more than the cap
NUMBER_OF_NAMES_TO_GENERATE == MAX_NAMES_TO_CRITIQUE + 1
\* "count" of each of the three name_generation_tasks of naming-crazy.py (20)
BATCH_COUNT == 1
\* the names a generator response may hold: more than are asked for
MaxLines == NUMBER_OF_NAMES_TO_GENERATE + 1
\* the critics of CRITIC_PERSONALITIES that take part
NumCritics == 2

AllCritics == <<"Finch", "Hayes", "Zip", "Moon">>
CRITIC_PERSONALITIES == SubSeq(AllCritics, 1, NumCritics)

Min(a, b) == IF a <= b THEN a ELSE b

\* s[:n]
Take(s, n) == SubSeq(s, 1, Min(n, Len(s)))

InSeq(x, s) == \E i \in 1..Len(s) : s[i] = x

\* the list as it is, repeated elements kept
KeepDuplicates(s) == s

\* list(dict.fromkeys(s)): the first occurrence of each element, in order
RECURSIVE Dedup(_)
Dedup(s) ==
    IF s = <<>> THEN <<>>
    ELSE LET d == Dedup(SubSeq(s, 1, Len(s) - 1))
         IN  IF InSeq(s[Len(s)], d) THEN d ELSE Append(d, s[Len(s)])

\* [x for x in s if x not in t]
RECURSIVE NotIn(_, _)
NotIn(s, t) ==
    IF s = <<>> THEN <<>>
    ELSE IF InSeq(Head(s), t) THEN NotIn(Tail(s), t)
    ELSE <<Head(s)>> \o NotIn(Tail(s), t)

(***************************************************************************)
(* generate_names.  A generator response is the list of names its lines    *)
(* hold (after the per-line clean-up), or the call raises.                 *)
(***************************************************************************)
GenResponses ==
    {[kind |-> "ok", names |-> ns] : ns \in SeqsUpTo(Names, MaxLines)}
        \cup {[kind |-> "raise", names |-> <<>>]}

generate_names(s, resp, count) ==
    IF resp.kind # "ok" THEN <<>>
    ELSE IF s = "creator" THEN Take(resp.names, count)
    ELSE Take(Dedup(resp.names), count)

GenCount(s) == IF s = "crazy" THEN BATCH_COUNT ELSE NUMBER_OF_NAMES_TO_GENERATE
\* one task more than the scripts run
NumBatchesOneMore(s) == IF s = "crazy" THEN 4 ELSE 2
\* naming-crazy.py runs its three name_generation_tasks
NumBatches(s) == IF s = "crazy" THEN 3 ELSE 1

(***************************************************************************)
(* check_name_online_google_api, called with the flag set.  The search     *)
(* request ends in one of these ways.                                      *)
(***************************************************************************)
CheckOutcomes ==
    {"clear",          \* no problematic result
     "problematic",    \* a result or the word list marks the name
     "quota",          \* HttpError 429/403 or a quota/billing reason, JSON body
     "http_json",      \* another HttpError with a JSON body
     "http_nonjson",   \* an HttpError whose body is not JSON
     "http_nullreason",\* an HttpError whose JSON body holds "reason": null
     "exception"}      \* any other exception

\* what the function returns and leaves in the flag; propagate: an exception
\* leaves the function
CheckResult(problematic, configured, propagate) ==
    [problematic |-> problematic, configured |-> configured, propagate |-> propagate]

\* The ways the search request can end, in detail: a result the analysis finds
\* problematic or not, an HttpError with its status and body, another exception.
\* A body is not JSON, JSON but no object, an object whose "error" is no
\* object, an object without "error", or an object whose "error" object holds
\* the given reason (absent: no "reason" key; null: "reason": null).
SearchRequests ==
    LET NoBody == [kind |-> "none", reason |-> ""]
        bodies == {[kind |-> k, reason |-> ""] :
                      k \in {"nonjson", "nonobject", "error_nonobject", "noerror"}}
                  \cup {[kind |-> "error", reason |-> r] :
                          r \in {"absent", "null", "quotaExceeded", "usageLimits",
                                  "billingNotEnabled", "other"}}
    IN  {[kind |-> "result", problematic |-> p, status |-> 0, body |-> NoBody] :
            p \in BOOLEAN}
        \cup {[kind |-> "exception", problematic |-> FALSE, status |-> 0, body |-> NoBody]}
        \cup {[kind |-> "http", problematic |-> FALSE, status |-> st, body |-> b] :
                st \in {429, 403, 400, 500}, b \in bodies}

\* the clause "except HttpError as e" on the error e
HttpErrorResult(s, e) ==
    LET \* json.loads(e.content).get('error', {}) and the .get calls on it work
        parsed == e.body.kind \in {"noerror", "error"}
        \* "'quotaExceeded' in reason" raises TypeError on None
        nullreason == e.body.kind = "error" /\ e.body.reason = "null"
        reason == IF e.body.kind = "error" THEN e.body.reason ELSE "absent"
        limited == e.status \in {429, 403}
        Raised == CheckResult(FALSE, TRUE, TRUE)
        Disabled == CheckResult(FALSE, FALSE, FALSE)
        Approved == CheckResult(FALSE, TRUE, FALSE)
    IN  IF s = "creator"
        THEN \* the inner try catches JSONDecodeError and AttributeError only; the
             \* reason is tested before the status
             IF ~parsed THEN Approved
             ELSE IF nullreason THEN Raised
             ELSE IF reason \in {"quotaExceeded", "usageLimits", "billingNotEnabled"}
                     \/ limited
             THEN Disabled
             ELSE Approved
        ELSE \* no inner try; the status is tested before the reason
             IF ~parsed THEN Raised
             ELSE IF limited THEN Disabled
             ELSE IF nullreason THEN Raised
             ELSE IF reason \in {"quotaExceeded", "billingNotEnabled"} THEN Disabled
             ELSE Approved

\* check_name_online_google_api with the flag as it is, on the request outcome req
RequestResult(s, configured, req) ==
    IF s = "crazy" THEN CheckResult(FALSE, configured, FALSE)
    ELSE IF ~configured THEN CheckResult(FALSE, FALSE, FALSE)
    ELSE IF req.kind = "result" THEN CheckResult(req.problematic, TRUE, FALSE)
    ELSE IF req.kind = "exception" THEN CheckResult(FALSE, TRUE, FALSE)
    ELSE HttpErrorResult(s, req)

\* a request outcome of each class of CheckOutcomes
RequestOf(o) ==
    CHOOSE req \in SearchRequests :
        IF o = "clear" THEN req.kind = "result" /\ ~req.problematic
        ELSE IF o = "problematic" THEN req.kind = "result" /\ req.problematic
        ELSE IF o = "exception" THEN req.kind = "exception"
        ELSE /\ req.kind = "http"
             /\ req.status = (IF o = "quota" THEN 429 ELSE 500)
             /\ req.body.kind = (IF o = "http_nonjson" THEN "nonjson" ELSE "error")
             /\ req.body.reason = (IF o = "http_nonjson" THEN ""
                                   ELSE IF o = "http_nullreason" THEN "null"
                                   ELSE "other")

check_name_online_google_api(s, o) == RequestResult(s, TRUE, RequestOf(o))

(***************************************************************************)
(* The log of external calls.                                              *)
(***************************************************************************)
Event(op, name, critic, data) == [op |-> op, name |-> name, critic |-> critic, data |-> data]

LogIndices(op) == {i \in 1..Len(log) : log[i].op = op}

(***************************************************************************)
(* main: input, generation, selection of the names to critique.            *)
(***************************************************************************)
Init ==
    /\ script \in Scripts
    /\ pc = "input"
    /\ GOOGLE_API_CONFIGURED \in BOOLEAN
    /\ MainLocalsUnset
    /\ content = NoResp
    /\ json_str = NoCand
    /\ ret = NoRet

\* theme = input(...); an empty theme ends the run; naming-crazy.py goes on to
\* ask for the craziness level
Input ==
    /\ pc = "input"
    /\ \E empty \in BOOLEAN :
         IF empty THEN pc' = "done" /\ gi' = gi
         ELSE IF script = "crazy" THEN pc' = "craziness" /\ gi' = gi
         ELSE pc' = "generate" /\ gi' = 1
    /\ UNCHANGED <<script, GOOGLE_API_CONFIGURED, initial_generated_names, approved_names,
                   craziness_level, fi, rejected, final_names_for_critique, loopVars,
                   report, log, callVars>>

\* what the user types at the craziness prompt: text int() accepts, or not
IntEntry(v) == [isint |-> TRUE, v |-> v]
NonIntEntry == [isint |-> FALSE, v |-> 0]
CrazinessEntries == {NonIntEntry} \cup {IntEntry(v) : v \in {0, 1, 100, 101}}

\* "if 1 <= craziness_level <= 100" with the lower end open
LevelAcceptedFromZero(e) == e.isint /\ 0 <= e.v /\ e.v <= 100
\* int(craziness_input) does not raise and "if 1 <= craziness_level <= 100: break"
LevelAccepted(e) == e.isint /\ 1 <= e.v /\ e.v <= 100

\* the entries the user gets wrong before a valid one
MaxRetries == 1

\* one turn of the "while True" loop that asks for the craziness level
Craziness ==
    /\ pc = "craziness"
    /\ \E e \in CrazinessEntries :
         /\ LevelAccepted(e) \/ Cardinality(LogIndices("level")) < MaxRetries
         /\ log' = Append(log, Event("level", "", "", <<e>>))
         /\ IF LevelAccepted(e)
            THEN craziness_level' = e.v /\ pc' = "generate" /\ gi' = 1
            ELSE UNCHANGED <<craziness_level, pc, gi>>
    /\ UNCHANGED <<script, GOOGLE_API_CONFIGURED, initial_generated_names, approved_names,
                   fi, rejected, final_names_for_critique, loopVars, report, callVars>>

\* main goes on although no name was generated
AfterGenerationGoesOn(names) == "filter_begin"
\* "if not initial_generated_names: ...; return"
AfterGeneration(names) == IF names = <<>> THEN "done" ELSE "filter_begin"

\* what the log keeps of a call of generate_names: the level passed (0 where
\* there is none), whether the model call raised, whether its output held no
\* name, and the list returned
Generated(level, resp, batch) ==
    [level |-> level, raised |-> resp.kind # "ok",
     nolines |-> resp.names = <<>>, names |-> batch]

\* one call of generate_names on the response resp, and what main does with
\* the list; after the last call main tests the merged list
GenerateWith(resp) ==
    LET batch == generate_names(script, resp, GenCount(script))
        all == initial_generated_names \o batch
        names == IF script = "crazy" THEN Dedup(all) ELSE all
    IN  /\ IF gi < NumBatches(script)
           THEN /\ initial_generated_names' = all
                /\ gi' = gi + 1
                /\ pc' = "generate"
           ELSE /\ initial_generated_names' = names
                /\ gi' = gi
                /\ pc' = AfterGeneration(names)
        /\ log' = Append(log, Event("generate", "", "",
                                    <<Generated(craziness_level, resp, batch)>>))

Generate ==
    /\ pc = "generate"
    /\ \E resp \in GenResponses : GenerateWith(resp)
    /\ UNCHANGED <<script, GOOGLE_API_CONFIGURED, approved_names, craziness_level, fi,
                   rejected, final_names_for_critique, loopVars, report, callVars>>

\* the slice taking the end of the list
LastGenerated(initial) ==
    SubSeq(initial, Len(initial) - Min(Len(initial), MAX_NAMES_TO_CRITIQUE) + 1, Len(initial))
\* "approved_names = initial_generated_names[:MAX_NAMES_TO_CRITIQUE]"
FirstGenerated(initial) == Take(initial, MAX_NAMES_TO_CRITIQUE)

\* "if GOOGLE_API_CONFIGURED:" before the filter loop (naming-crazy.py always loops)
FilterBegin ==
    /\ pc = "filter_begin"
    /\ IF script = "crazy" \/ GOOGLE_API_CONFIGURED
       THEN /\ pc' = "filter_loop"
            /\ fi' = 1
            /\ approved_names' = <<>>
       ELSE /\ pc' = "select"
            /\ fi' = fi
            /\ approved_names' = FirstGenerated(initial_generated_names)
    /\ UNCHANGED <<script, GOOGLE_API_CONFIGURED, initial_generated_names, craziness_level,
                   gi, rejected, final_names_for_critique, loopVars, report, log, callVars>>

\* "if len(approved_names) >= MAX_NAMES_TO_CRITIQUE: break"
CapReachedOffByOne(approved) == Len(approved) > MAX_NAMES_TO_CRITIQUE
CapReached(approved) == Len(approved) >= MAX_NAMES_TO_CRITIQUE

\* the branch "if not GOOGLE_API_CONFIGURED: approved_names.append(...); continue"
ApproveUncheckedSkips(approved, name) == approved
ApproveUnchecked(approved, name) == Append(approved, name)

\* the loop is over: its list is exhausted or the cap is reached
FilterExit ==
    /\ pc = "filter_loop"
    /\ fi > Len(initial_generated_names) \/ CapReached(approved_names)
    /\ pc' = "select"
    /\ UNCHANGED <<script, GOOGLE_API_CONFIGURED, selectVars, loopVars, report, log, callVars>>

\* an iteration after the web check was disabled mid-run
FilterDisabled ==
    /\ pc = "filter_loop"
    /\ fi <= Len(initial_generated_names) /\ ~CapReached(approved_names)
    /\ script # "crazy" /\ ~GOOGLE_API_CONFIGURED
    /\ approved_names' = ApproveUnchecked(approved_names, initial_generated_names[fi])
    /\ fi' = fi + 1
    /\ UNCHANGED <<script, pc, GOOGLE_API_CONFIGURED, initial_generated_names,
                   craziness_level, gi, rejected, final_names_for_critique, loopVars,
                   report, log, callVars>>

\* an iteration that sends the search request
FilterCheck ==
    /\ pc = "filter_loop"
    /\ fi <= Len(initial_generated_names) /\ ~CapReached(approved_names)
    /\ script # "crazy" /\ GOOGLE_API_CONFIGURED
    /\ \E o \in CheckOutcomes :
         LET name == initial_generated_names[fi]
             r == check_name_online_google_api(script, o)
         IN  /\ GOOGLE_API_CONFIGURED' = r.configured
             /\ IF r.propagate
                THEN pc' = "crashed_check" /\ UNCHANGED <<approved_names, rejected, fi>>
                ELSE /\ pc' = pc
                     /\ fi' = fi + 1
                     /\ approved_names' = IF r.problematic THEN approved_names
                                          ELSE Append(approved_names, name)
                     /\ rejected' = IF r.problematic THEN rejected \cup {name}
                                    ELSE rejected
             /\ log' = Append(log, Event("check", name, "", <<>>))
    /\ UNCHANGED <<script, initial_generated_names, craziness_level, gi,
                   final_names_for_critique, loopVars, report, callVars>>

\* an iteration of naming-crazy.py: the web check is bypassed and approves
FilterBypassed ==
    /\ pc = "filter_loop"
    /\ fi <= Len(initial_generated_names) /\ ~CapReached(approved_names)
    /\ script = "crazy"
    /\ approved_names' = Append(approved_names, initial_generated_names[fi])
    /\ fi' = fi + 1
    /\ UNCHANGED <<script, pc, GOOGLE_API_CONFIGURED, initial_generated_names,
                   craziness_level, gi, rejected, final_names_for_critique, loopVars,
                   report, log, callVars>>

\* name-creator.py: the top-up when the web check is off
TopUp(approved, initial, configured) ==
    IF Len(approved) < MAX_NAMES_TO_CRITIQUE /\ ~configured /\ Len(initial) > 0
    THEN approved \o Take(NotIn(initial, approved), MAX_NAMES_TO_CRITIQUE - Len(approved))
    ELSE approved

\* naming_engine.py: the fallback when nothing was approved
Fallback(approved, initial) ==
    IF approved = <<>> /\ Len(initial) > 0
    THEN Take(initial, MAX_NAMES_TO_CRITIQUE)
    ELSE approved

\* from the end of the filter to final_names_for_critique
Select ==
    /\ pc = "select"
    /\ LET approved == IF script = "creator"
                       THEN TopUp(approved_names, initial_generated_names,
                                  GOOGLE_API_CONFIGURED)
                       ELSE IF script = "engine"
                       THEN Fallback(approved_names, initial_generated_names)
                       ELSE approved_names
       IN  /\ approved_names' = approved
           /\ IF approved = <<>>
              THEN /\ pc' = "done"
                   /\ UNCHANGED <<final_names_for_critique, ni, ci>>
              ELSE /\ pc' = "critique"
                   /\ final_names_for_critique' =
                        IF script = "creator" THEN Take(approved, MAX_NAMES_TO_CRITIQUE)
                        ELSE Take(Dedup(approved), MAX_NAMES_TO_CRITIQUE)
                   /\ ni' = 1
                   /\ ci' = 1
    /\ UNCHANGED <<script, GOOGLE_API_CONFIGURED, initial_generated_names, craziness_level,
                   gi, fi, rejected, current_name_critiques, all_results_for_report, data_for_global_ranker,
                   final_ranked_order_from_cro, report, log, callVars>>

(***************************************************************************)
(* run_synthesis_critique (naming_engine.py, naming-crazy.py).             *)
(***************************************************************************)
SynthReturned(summary, verdict) == [kind |-> "return", summary |-> summary, verdict |-> verdict]
SynthPropagated == [kind |-> "propagate", summary |-> CritNone, verdict |-> CritNone]

\* "Verdict unclear", and the verdict the fallback pattern of naming-crazy.py finds
VerdictUnclear == Crit("unclear", <<>>)
VerdictMatched == Crit("matched", <<>>)

\* a fallback that gives up: the stripped content and no verdict
SynthesisFallbackNulls(s, c) == SynthReturned(CritRaw(c), CritNone)

\* the except (json.JSONDecodeError, KeyError) branch, on the stripped content c
SynthesisFallback(s, c) ==
    SynthReturned(IF c = <<>> THEN CritFailed ELSE CritRaw(c),
                  IF s = "crazy" /\ InSeq("v", c) THEN VerdictMatched ELSE VerdictUnclear)

run_synthesis_critique(s, resp) ==
    IF resp.kind = "raise" THEN SynthReturned(CritError, CritError)
    ELSE IF resp.kind = "nokey" THEN SynthPropagated
    ELSE LET c == Strip(resp.text)
             js == JsonCandidate(s, c).str
         IN  IF js # NoMatch /\ JsonValid(js)
             THEN SynthReturned(IF DictGet(js, "summary") = Absent THEN CritNone ELSE CritJson,
                                IF DictGet(js, "verdict") = Absent THEN CritNone ELSE CritJson)
             ELSE SynthesisFallback(s, c)

(***************************************************************************)
(* run_global_ranking (naming-crazy.py).  A ranker response is a text and  *)
(* the value of its 'ranked_finalists' member: a list of items or not a    *)
(* list.  An item is a dict or not; name "" and rank 0 stand for a missing *)
(* key, NullRank for a 'rank' key that holds null.                         *)
(***************************************************************************)
RankItem(isdict, name, rank) == [isdict |-> isdict, name |-> name, rank |-> rank]
RankedList(items) == [islist |-> TRUE, items |-> items]
NotAList == [islist |-> FALSE, items |-> <<>>]
RankResp(kind, text, ranked) == [kind |-> kind, text |-> text, ranked |-> ranked]

RankReturned(ranking) == [kind |-> "return", ranking |-> ranking]
RankPropagated == [kind |-> "propagate", ranking |-> <<>>]

\* [item.get('name') for item in ranked_list if isinstance(item, dict) and item.get('name')]
RECURSIVE ExtractNames(_)
ExtractNames(items) ==
    IF items = <<>> THEN <<>>
    ELSE IF Head(items).isdict /\ Head(items).name # ""
    THEN <<Head(items).name>> \o ExtractNames(Tail(items))
    ELSE ExtractNames(Tail(items))

\* the recovery numbers the names it found from 0: an off-by-one
RecoveredFromZero(names) == [i \in 1..Len(names) |-> RankItem(TRUE, names[i], i - 1)]
\* [{"rank": i + 1, "name": name, ...} for i, name in enumerate(extracted)]
Recovered(names) == [i \in 1..Len(names) |-> RankItem(TRUE, names[i], i)]

ItemValid(item) == item.isdict /\ item.name # "" /\ item.rank # 0

run_global_ranking(data, resp) ==
    IF data = <<>> THEN RankReturned(<<>>)
    ELSE IF resp.kind = "raise" THEN RankReturned(<<>>)
    ELSE IF resp.kind = "nokey" THEN RankPropagated
    ELSE LET c == Strip(resp.text)
             js == JsonCandidate("crazy", c).str
         IN  IF ~(js # NoMatch /\ JsonValid(js)) THEN RankReturned(<<>>)
             ELSE IF DictGet(js, "ranked_finalists") = Absent THEN RankReturned(<<>>)
             ELSE IF ~resp.ranked.islist THEN RankReturned(<<>>)
             ELSE IF \A i \in 1..Len(resp.ranked.items) : ItemValid(resp.ranked.items[i])
             THEN RankReturned(resp.ranked.items)
             ELSE RankReturned(Recovered(ExtractNames(resp.ranked.items)))

\* str.lower() on the names of the model
Lower(n) == IF n = "A" THEN "a" ELSE n

\* the ranks and the number of items a ranker response may hold
MaxRank == 2
MaxRanked == 2
\* float('inf'), above every rank of the model
Inf == MaxRank + MaxRanked + 1
\* a 'rank' key that holds null: present, and no number
NullRank == Inf + 1

\* name_to_global_rank.get(name.lower(), float('inf')): a later item overrides
RankOf(name, ranking) ==
    LET is == {i \in 1..Len(ranking) : Lower(ranking[i].name) = Lower(name)}
    IN  IF is = {} THEN Inf ELSE ranking[CHOOSE i \in is : \A i2 \in is : i >= i2].rank

\* list.sort(key=...) raises TypeError: it compares a None key with another key
\* (every key takes part in a comparison when there are two or more)
SortRaises(results, ranking) ==
    /\ Len(results) >= 2
    /\ \E i \in 1..Len(results) : RankOf(results[i].name, ranking) = NullRank

\* list.sort(key=...): stable, ascending
RECURSIVE SortByRank(_, _)
SortByRank(results, ranking) ==
    IF results = <<>> THEN <<>>
    ELSE LET rest == SortByRank(SubSeq(results, 1, Len(results) - 1), ranking)
             x == results[Len(results)]
             k == RankOf(x.name, ranking)
             before == {i \in 1..Len(rest) : RankOf(rest[i].name, ranking) <= k}
             n == Cardinality(before)
         IN  SubSeq(rest, 1, n) \o <<x>> \o SubSeq(rest, n + 1, Len(rest))

(***************************************************************************)
(* main: the critique loop, the ranking and the report.                    *)
(***************************************************************************)
\* critic_profile["emoji"] in the CRITIC_PERSONALITIES of script s
Emoji(s, critic) ==
    IF critic = "Finch" THEN "older man"
    ELSE IF critic = "Hayes" THEN (IF s = "crazy" THEN "globe" ELSE "scales")
    ELSE IF critic = "Zip" THEN "sunglasses"
    ELSE "sparkles"

\* the entry main appends for a critic of the running script
Entry(critic, r) ==
    [critic_name |-> critic, emoji |-> Emoji(script, critic),
     critique |-> r.critique, score |-> r.score]

NoSynthesis == [present |-> FALSE, summary |-> CritNone, verdict |-> CritNone]
Synthesis(r) == [present |-> TRUE, summary |-> r.summary, verdict |-> r.verdict]
Item(name, critiques, synthesis) ==
    [name |-> name, critiques |-> critiques, synthesis |-> synthesis]
RankerInput(name, r) ==
    [name |-> name, synthesis_summary |-> r.summary, synthesis_verdict |-> r.verdict]

NamesOf(items) == [i \in 1..Len(items) |-> items[i].name]

\* the responses the critics, the synthesis critic and the ranker give in a run:
\* a complete object, an object that lacks a field, a response without 'message'
MainCriticResponses == {OkResp(<<"{", "c", "s7", "}">>), OkResp(<<"{", "}">>), NoKeyResp}
MainSynthResponses == {OkResp(<<"{", "m", "v", "}">>), OkResp(<<"{", "v", "}">>), NoKeyResp}

Reversed(s) == [i \in 1..Len(s) |-> s[Len(s) + 1 - i]]
\* the ranker writes a name with a capital
Upper(n) == IF n = "a" THEN "A" ELSE n
\* the candidates in reverse order (capitals changed), the last candidate alone,
\* the candidates with null ranks, no JSON, no 'message'
MainRankResponses(data) ==
    LET names == NamesOf(data)
    IN  {RankResp("ok", <<"{", "r", "}">>,
                  RankedList([i \in 1..Len(names) |->
                                 RankItem(TRUE, Upper(Reversed(names)[i]), i)])),
         RankResp("ok", <<"{", "r", "}">>,
                  RankedList(<<RankItem(TRUE, names[Len(names)], 1)>>)),
         RankResp("ok", <<"{", "r", "}">>,
                  RankedList([i \in 1..Len(names) |-> RankItem(TRUE, names[i], NullRank)])),
         RankResp("ok", <<"w">>, NotAList),
         RankResp("nokey", <<>>, NotAList)}

\* "current_name_critiques = []" at the start of a name, and a faulty variant that keeps
\* the list of the name before
KeepCritiques(prev) == prev
FreshCritiques(prev) == <<>>

\* where main goes after the synthesis of name i of n, and a faulty variant that calls the
\* ranker inside the loop
AfterSynthesisRanksEarly(s, i, n) ==
    IF s = "crazy" THEN "rank" ELSE IF i < n THEN "critique" ELSE "report"
AfterSynthesis(s, i, n) ==
    IF i < n THEN "critique" ELSE IF s = "crazy" THEN "rank" ELSE "report"

\* one call of critique_name_with_personality and the append of its entry
Critique ==
    /\ pc = "critique"
    /\ \E resp \in MainCriticResponses :
         LET name == final_names_for_critique[ni]
             critic == CRITIC_PERSONALITIES[ci]
             r == critique_name_with_personality(script, resp)
             base == IF ci = 1 THEN FreshCritiques(current_name_critiques)
                     ELSE current_name_critiques
             cur == Append(base, Entry(critic, r))
             last == ci = Len(CRITIC_PERSONALITIES)
         IN  /\ content' = resp
             /\ json_str' = IF resp.kind = "ok"
                            THEN JsonCandidate(script, Strip(resp.text)) ELSE NoCand
             /\ ret' = r
             /\ IF r.kind = "propagate"
                THEN /\ pc' = "crashed_critique"
                     /\ log' = Append(log, Event("critique", name, critic, <<>>))
                     /\ UNCHANGED <<ni, ci, current_name_critiques, all_results_for_report>>
                ELSE /\ log' = Append(log, Event("critique", name, critic, <<Entry(critic, r)>>))
                     /\ current_name_critiques' = cur
                     /\ IF ~last
                        THEN /\ ci' = ci + 1
                             /\ UNCHANGED <<pc, ni, all_results_for_report>>
                        ELSE IF script = "creator"
                        THEN /\ all_results_for_report' =
                                  Append(all_results_for_report, Item(name, cur, NoSynthesis))
                             /\ ni' = ni + 1
                             /\ ci' = 1
                             /\ pc' = IF ni < Len(final_names_for_critique)
                                      THEN "critique" ELSE "report"
                        ELSE /\ pc' = "synth"
                             /\ UNCHANGED <<ni, ci, all_results_for_report>>
    /\ UNCHANGED <<script, GOOGLE_API_CONFIGURED, selectVars, data_for_global_ranker,
                   final_ranked_order_from_cro, report>>

\* the call of run_synthesis_critique for the current name
Synthesize ==
    /\ pc = "synth"
    /\ \E resp \in MainSynthResponses :
         LET name == final_names_for_critique[ni]
             r == run_synthesis_critique(script, resp)
         IN  /\ content' = resp
             /\ json_str' = IF resp.kind = "ok"
                            THEN JsonCandidate(script, Strip(resp.text)) ELSE NoCand
             /\ log' = Append(log, Event("synth", name, "", current_name_critiques))
             /\ IF r.kind = "propagate"
                THEN /\ pc' = "crashed_synth"
                     /\ UNCHANGED <<ni, ci, all_results_for_report, data_for_global_ranker>>
                ELSE /\ all_results_for_report' =
                          Append(all_results_for_report,
                                 Item(name, current_name_critiques, Synthesis(r)))
                     /\ data_for_global_ranker' =
                          IF script = "crazy"
                          THEN Append(data_for_global_ranker, RankerInput(name, r))
                          ELSE data_for_global_ranker
                     /\ pc' = AfterSynthesis(script, ni, Len(final_names_for_critique))
                     /\ ni' = ni + 1
                     /\ ci' = 1
    /\ UNCHANGED <<script, GOOGLE_API_CONFIGURED, selectVars, current_name_critiques,
                   final_ranked_order_from_cro, report, ret>>

\* naming-crazy.py: the call of run_global_ranking and the sort of the results
Rank ==
    /\ pc = "rank"
    /\ \E resp \in MainRankResponses(data_for_global_ranker) :
         LET r == run_global_ranking(data_for_global_ranker, resp)
         IN  /\ content' = resp
             /\ json_str' = IF resp.kind = "ok"
                            THEN JsonCandidate(script, Strip(resp.text)) ELSE NoCand
             /\ log' = Append(log, Event("rank", "", "", NamesOf(data_for_global_ranker)))
             /\ IF r.kind = "propagate"
                THEN /\ pc' = "crashed_rank"
                     /\ UNCHANGED <<all_results_for_report, final_ranked_order_from_cro>>
                ELSE /\ final_ranked_order_from_cro' = r.ranking
                     /\ IF r.ranking # <<>> /\ SortRaises(all_results_for_report, r.ranking)
                        THEN /\ pc' = "crashed_sort"
                             /\ UNCHANGED all_results_for_report
                        ELSE /\ pc' = "report"
                             /\ all_results_for_report' =
                                  IF r.ranking # <<>>
                                  THEN SortByRank(all_results_for_report, r.ranking)
                                  ELSE all_results_for_report
    /\ UNCHANGED <<script, GOOGLE_API_CONFIGURED, selectVars, ni, ci, current_name_critiques,
                   data_for_global_ranker, report, ret>>

\* generate_html_report raises: naming-crazy.py calls .replace on
\* synthesis_data.get("summary", "N/A"), which is None when the key holds None
ReportRaises(s, results) ==
    /\ s = "crazy"
    /\ \E i \in 1..Len(results) :
         /\ results[i].synthesis.present
         /\ \/ results[i].synthesis.summary = CritNone
            \/ results[i].synthesis.verdict = CritNone

Report ==
    /\ pc = "report"
    /\ IF ReportRaises(script, all_results_for_report)
       THEN /\ pc' = "crashed_report"
            /\ UNCHANGED <<report, log>>
       ELSE /\ pc' = "done"
            /\ report' = [written |-> TRUE, names |-> NamesOf(all_results_for_report)]
            /\ log' = Append(log, Event("report", "", "", NamesOf(all_results_for_report)))
    /\ UNCHANGED <<script, GOOGLE_API_CONFIGURED, selectVars, loopVars, callVars>>

Next ==
    \/ Input
    \/ Craziness
    \/ Generate
    \/ FilterBegin
    \/ FilterExit
    \/ FilterDisabled
    \/ FilterCheck
    \/ FilterBypassed
    \/ Select
    \/ Critique
    \/ Synthesize
    \/ Rank
    \/ Report

Spec == Init /\ [][Next]_vars

\* main is sequential code: an external call returns or raises, and the step
\* after it is taken
SpecLive == Spec /\ WF_vars(Next)

(***************************************************************************)
(* SpecRank: one call of run_global_ranking on every candidate list and    *)
(* every response of RankResponses.                                        *)
(***************************************************************************)
\* the names a ranker may put in an item: a candidate's, none, or one of its own
RankNames == Names \cup {"", "z"}

RankItems ==
    {RankItem(FALSE, "", 0)}
        \cup {RankItem(TRUE, n, r) : n \in RankNames, r \in (0..MaxRank) \cup {NullRank}}

RankResponses ==
    {RankResp("ok", <<"{", "r", "}">>, rl) :
        rl \in {NotAList} \cup {RankedList(is) : is \in SeqsUpTo(RankItems, MaxRanked)}}
        \cup {RankResp("ok", <<"{", "}">>, NotAList), RankResp("ok", <<"w">>, NotAList),
              RankResp("raise", <<>>, NotAList), RankResp("nokey", <<>>, NotAList)}

Distinct(s) == \A i, j \in 1..Len(s) : i # j => s[i] # s[j]

\* final_names_for_critique holds no name twice
CandidateLists ==
    {[i \in 1..Len(ns) |-> RankerInput(ns[i], SynthReturned(CritJson, CritJson))] :
        ns \in {q \in SeqsUpTo(Names, MaxRanked) : Distinct(q)}}

InitRank ==
    /\ script = "crazy"
    /\ pc = "call"
    /\ GOOGLE_API_CONFIGURED = FALSE
    /\ initial_generated_names = <<>>
    /\ approved_names = <<>>
    /\ craziness_level = 0
    /\ gi = 0
    /\ fi = 0
    /\ rejected = {}
    /\ final_names_for_critique = <<>>
    /\ ni = 0
    /\ ci = 0
    /\ current_name_critiques = <<>>
    /\ all_results_for_report = <<>>
    /\ data_for_global_ranker \in CandidateLists
    /\ final_ranked_order_from_cro = <<>>
    /\ report = NoReport
    /\ log = <<>>
    /\ content \in RankResponses
    /\ json_str = NoCand
    /\ ret = NoRet

CallRanking ==
    /\ pc = "call"
    /\ pc' = "returned"
    /\ json_str' = IF content.kind = "ok"
                   THEN JsonCandidate(script, Strip(content.text)) ELSE NoCand
    /\ ret' = run_global_ranking(data_for_global_ranker, content)
    /\ UNCHANGED <<script, GOOGLE_API_CONFIGURED, selectVars, loopVars, report, log, content>>

NextRank == CallRanking

SpecRank == InitRank /\ [][NextRank]_vars

(***************************************************************************)
(* Properties of critique_name_with_personality (SpecCritique).            *)
(***************************************************************************)
Bare(c) == startswith(c, "{") /\ endswith(c, "}")

\* the call returned on a response that has a text
ReturnedOnText == pc = "returned" /\ content.kind = "ok"

NoJsonParsed ==
    /\ ReturnedOnText
    /\ json_str.str = NoMatch \/ ~JsonValid(json_str.str)

\* C2 as stated: when no JSON object can be parsed, the function returns a null
\* score and the raw response text, unaltered, as the critique
C2NullAndRawText ==
    NoJsonParsed => ret = Returned(CritRaw(Strip(content.text)), NoneV)

\* C2 (amended): when no JSON object can be parsed, the score is the number (1..10)
\* of the first score phrase of the text, or null if there is none.  The critique
\* is the text unaltered only in name-creator.py and naming_engine.py when no score
\* phrase is found; otherwise the score phrases are removed and the ends stripped of
\* blanks (name-creator.py) or punctuation (the other two; naming-crazy.py always
\* does so).  naming_engine.py returns "Critique parsing failed." when nothing is
\* left, naming-crazy.py when the text is empty
C2FallbackScoreAndText ==
    NoJsonParsed =>
        LET c == Strip(content.text)
            found == ~SearchScore(c).none
            cleaned == SubScore(c, 1)
            text == IF script = "creator" THEN (IF found THEN Strip(cleaned) ELSE c)
                    ELSE IF script = "engine" THEN (IF found THEN PunctStrip(cleaned) ELSE c)
                    ELSE PunctStrip(cleaned)
            failed == \/ script = "engine" /\ text = <<>>
                      \/ script = "crazy" /\ c = <<>>
        IN  /\ ret.kind = "return"
            /\ ret.score = SearchScore(c)
            /\ ret.score.none \/ ret.score.v \in 1..10
            /\ ret.critique = IF failed THEN CritFailed ELSE CritRaw(text)

\* the fallback found a score and returned an altered text
C2Witness ==
    /\ NoJsonParsed
    /\ ret.score = Some(9)
    /\ ret.critique.tag = "raw"
    /\ ret.critique.txt # Strip(content.text)

\* the response is a valid object with a string critique and the score 7 in a
\* ```json fence, possibly with prose around the fence
FencedValidObject ==
    /\ ReturnedOnText
    /\ \E pre \in Prose, post \in Prose :
         content.text = pre \o <<"J", "_", "{", "c", "s7", "}", "T">> \o post

\* C4: on a valid object with a string critique and an integer score in 1..10
\* wrapped in a ```json fence, the function returns exactly that critique and score
C4FencedObjectReturned ==
    FencedValidObject => ret = Returned(CritJson, Some(7))

\* C8: every score the function returns is null or an integer in 1..10, whatever
\* the score member holds and whichever path produced it
C8ScoreNullOrInRange ==
    pc = "returned" /\ ret.kind = "return" =>
        ret.score.none \/ ret.score.v \in 1..10

\* a parsed object with the score 11 gave a null score
C8Witness ==
    /\ ReturnedOnText
    /\ script = "engine"
    /\ json_str.str # NoMatch
    /\ JsonValid(json_str.str)
    /\ DictGet(json_str.str, "score") = MemberVal("s11")
    /\ ret = Returned(CritJson, NoneV)

(***************************************************************************)
(* Properties of run_global_ranking (SpecRank).                            *)
(***************************************************************************)
RankingReturned == pc = "returned" /\ ret.kind = "return" /\ ret.ranking # <<>>

\* C7 as stated: a non-empty ranking holds every candidate name passed in exactly
\* once and no other name
C7OrdersAllCandidates ==
    RankingReturned =>
        LET cands == NamesOf(data_for_global_ranker)
            ranked == NamesOf(ret.ranking)
        IN  /\ \A i \in 1..Len(cands) :
                 Cardinality({j \in 1..Len(ranked) : ranked[j] = cands[i]}) = 1
            /\ \A j \in 1..Len(ranked) : InSeq(ranked[j], cands)

\* C7 (amended): every entry of a non-empty ranking has a name and a rank; the
\* ranking is the model's list unchanged when all of its items hold both keys, and
\* otherwise the named items of that list, in its order, ranked 1..k.  The names
\* are not compared with the candidates passed in
C7ModelListOrRecovered ==
    RankingReturned =>
        LET items == content.ranked.items
            named == SelectSeq(items, LAMBDA it : it.isdict /\ it.name # "")
            complete == \A i \in 1..Len(items) :
                           items[i].isdict /\ items[i].name # "" /\ items[i].rank # 0
        IN  /\ \A i \in 1..Len(ret.ranking) :
                 ret.ranking[i].name # "" /\ ret.ranking[i].rank # 0
            /\ complete => ret.ranking = items
            /\ ~complete =>
                 /\ NamesOf(ret.ranking) = NamesOf(named)
                 /\ \A i \in 1..Len(ret.ranking) : ret.ranking[i].rank = i

\* the recovery returned a ranking with a name that is no candidate
C7Witness ==
    /\ RankingReturned
    /\ ret.ranking # content.ranked.items
    /\ \E i \in 1..Len(ret.ranking) :
         ~InSeq(ret.ranking[i].name, NamesOf(data_for_global_ranker))

(***************************************************************************)
(* Properties of main (Spec).                                              *)
(***************************************************************************)
\* C3: a well-formed response object that lacks a field never aborts the run: the
\* report generator does not raise on the null the missing field leaves
C3MissingFieldNeverAborts ==
    ~(/\ pc = "crashed_report"
      /\ \E i \in 1..Len(all_results_for_report) :
           LET syn == all_results_for_report[i].synthesis
           IN  syn.present /\ (syn.summary = CritNone \/ syn.verdict = CritNone))

Before(op1, op2) == \A i \in LogIndices(op1), j \in LogIndices(op2) : i < j

SelectionPcs == {"input", "generate", "filter_begin", "filter_loop", "select"}

\* the calls for name n that precede position k of the log
CritiquedBefore(n, k) ==
    \A c \in 1..Len(CRITIC_PERSONALITIES) :
        \E i \in 1..(k - 1) :
            /\ log[i].op = "critique"
            /\ log[i].name = n
            /\ log[i].critic = CRITIC_PERSONALITIES[c]
            /\ log[i].data # <<>>
SynthesizedBefore(n, k) ==
    \E i \in 1..(k - 1) : log[i].op = "synth" /\ log[i].name = n

\* C5: in naming-crazy.py no critic is called before the selection of the names
\* has finished; the ranker is called at most once, and only after every selected
\* name was critiqued by all personas and synthesized; the report is written only
\* after the ranking call, and after it no model is called
C5StageOrder ==
    script = "crazy" =>
        /\ LogIndices("critique") # {} =>
             pc \notin SelectionPcs /\ final_names_for_critique # <<>>
        /\ Before("generate", "critique")
        /\ Before("critique", "rank") /\ Before("synth", "rank")
        /\ Cardinality(LogIndices("rank")) <= 1
        /\ \A k \in LogIndices("rank") :
             \A n \in 1..Len(final_names_for_critique) :
                 /\ CritiquedBefore(final_names_for_critique[n], k)
                 /\ SynthesizedBefore(final_names_for_critique[n], k)
        /\ report.written =>
             /\ LogIndices("rank") # {}
             /\ LogIndices("report") # {}
             /\ pc = "done"
        /\ Before("rank", "report")
        /\ \A k \in LogIndices("report") : k = Len(log)

\* a run of naming-crazy.py on two names that wrote its report
C5Witness ==
    /\ script = "crazy"
    /\ report.written
    /\ Len(final_names_for_critique) = MAX_NAMES_TO_CRITIQUE
    /\ final_ranked_order_from_cro # <<>>

\* C6: the synthesis critic is called for a name right after the personas have
\* critiqued that name, and its input is exactly their critiques of that name, one
\* per persona, in persona order
C6SynthesisInput ==
    \A k \in LogIndices("synth") :
        LET n == Len(CRITIC_PERSONALITIES)
        IN  /\ k > n
            /\ Len(log[k].data) = n
            /\ \A c \in 1..n :
                 LET e == log[k - n + c - 1]
                 IN  /\ e.op = "critique"
                     /\ e.name = log[k].name
                     /\ e.critic = CRITIC_PERSONALITIES[c]
                     /\ e.data = <<log[k].data[c]>>
                     /\ log[k].data[c].critic_name = CRITIC_PERSONALITIES[c]

\* the synthesis of a second name, whose critiques differ from the first name's
C6Witness ==
    \E k1, k2 \in LogIndices("synth") :
        /\ k1 < k2
        /\ log[k1].name # log[k2].name
        /\ log[k1].data # log[k2].data

\* C9: the approved list never holds more than MAX_NAMES_TO_CRITIQUE names, during
\* the filter loop and after the top-up and the fallback, and no more names than
\* that are sent to the critics
C9ApprovedWithinCap ==
    /\ Len(approved_names) <= MAX_NAMES_TO_CRITIQUE
    /\ Len(final_names_for_critique) <= MAX_NAMES_TO_CRITIQUE
    /\ Cardinality({log[i].name : i \in LogIndices("critique")}) <= MAX_NAMES_TO_CRITIQUE

\* name-creator.py: the top-up filled the list to the cap with a rejected name
C9Witness ==
    /\ script = "creator"
    /\ pc = "critique"
    /\ Len(approved_names) = MAX_NAMES_TO_CRITIQUE
    /\ \E i \in 1..Len(approved_names) : approved_names[i] \in rejected

\* the web check was on when the run began and a search request disabled it
DisabledMidRun ==
    /\ script \in {"creator", "engine"}
    /\ ~GOOGLE_API_CONFIGURED
    /\ LogIndices("check") # {}

\* C10: once the web check is disabled mid-run the flag stays False, no further
\* search request is sent, and each name the filter loop examines below the cap is
\* approved
C10StaysDisabled ==
    [][DisabledMidRun =>
          /\ ~GOOGLE_API_CONFIGURED'
          /\ Cardinality({i \in 1..Len(log') : log'[i].op = "check"})
                 = Cardinality(LogIndices("check"))
          /\ (/\ pc = "filter_loop"
              /\ fi <= Len(initial_generated_names)
              /\ Len(approved_names) < MAX_NAMES_TO_CRITIQUE)
                 => /\ approved_names' = Append(approved_names, initial_generated_names[fi])
                    /\ fi' = fi + 1]_vars

\* a name was approved after the web check was disabled: fewer requests than names
C10Witness ==
    /\ DisabledMidRun
    /\ pc = "critique"
    /\ Cardinality(LogIndices("check")) < Len(approved_names)

(***************************************************************************)
(* get_craziness_settings (naming-crazy.py).  The description is the       *)
(* number of its band, 1..7; temperature and top_p are in hundredths, as   *)
(* round(x, 2) leaves them.                                                *)
(***************************************************************************)
\* the levels the prompt of main accepts
MinLevel == 1
MaxLevel == 100

\* the if/elif chain with each band ending one level early
BandEndsEarly(level) ==
    IF 1 <= level /\ level < 15 THEN 1
    ELSE IF 16 <= level /\ level < 30 THEN 2
    ELSE IF 31 <= level /\ level < 45 THEN 3
    ELSE IF 46 <= level /\ level < 60 THEN 4
    ELSE IF 61 <= level /\ level < 75 THEN 5
    ELSE IF 76 <= level /\ level < 90 THEN 6
    ELSE 7

\* the if/elif chain that chooses desc and insp_intro
Band(level) ==
    IF 1 <= level /\ level <= 15 THEN 1
    ELSE IF 16 <= level /\ level <= 30 THEN 2
    ELSE IF 31 <= level /\ level <= 45 THEN 3
    ELSE IF 46 <= level /\ level <= 60 THEN 4
    ELSE IF 61 <= level /\ level <= 75 THEN 5
    ELSE IF 76 <= level /\ level <= 90 THEN 6
    ELSE 7

\* num / den to the nearest integer (den is odd here: there are no ties)
RoundDiv(num, den) == (2 * num + den) \div (2 * den)

\* norm_level computed as level / 99.0
TemperatureFromLevel(level) == RoundDiv(40 * 99 + 100 * level, 99)
\* round(0.4 + ((level - 1) / 99.0) * 1.0, 2), in hundredths
Temperature(level) == RoundDiv(40 * 99 + 100 * (level - 1), 99)
\* round(0.95 - ((level - 1) / 99.0) * 0.30, 2), in hundredths
TopP(level) == RoundDiv(95 * 99 - 30 * (level - 1), 99)

get_craziness_settings(level) ==
    [kind |-> "return", desc |-> Band(level), temp |-> Temperature(level),
     top_p |-> TopP(level)]

(***************************************************************************)
(* SpecCraziness: one call of get_craziness_settings on every level the    *)
(* prompt accepts.                                                         *)
(***************************************************************************)
InitCraziness ==
    /\ script = "crazy"
    /\ pc = "call"
    /\ GOOGLE_API_CONFIGURED = FALSE
    /\ initial_generated_names = <<>>
    /\ approved_names = <<>>
    /\ craziness_level \in MinLevel..MaxLevel
    /\ gi = 0
    /\ fi = 0
    /\ rejected = {}
    /\ final_names_for_critique = <<>>
    /\ ni = 0
    /\ ci = 0
    /\ current_name_critiques = <<>>
    /\ all_results_for_report = <<>>
    /\ data_for_global_ranker = <<>>
    /\ final_ranked_order_from_cro = <<>>
    /\ report = NoReport
    /\ log = <<>>
    /\ content = NoResp
    /\ json_str = NoCand
    /\ ret = NoRet

CallSettings ==
    /\ pc = "call"
    /\ pc' = "returned"
    /\ ret' = get_craziness_settings(craziness_level)
    /\ UNCHANGED <<script, GOOGLE_API_CONFIGURED, selectVars, loopVars, report, log,
                   content, json_str>>

NextCraziness == CallSettings

SpecCraziness == InitCraziness /\ [][NextCraziness]_vars

(***************************************************************************)
(* Properties of get_craziness_settings (SpecCraziness).                   *)
(***************************************************************************)
BandLow == <<1, 16, 31, 46, 61, 76, 91>>
BandHigh == <<15, 30, 45, 60, 75, 90, 100>>

\* C11: every level in 1..100 gets the description of the one band among 1-15,
\* 16-30, 31-45, 46-60, 61-75, 76-90, 91-100 that holds it, and no lower level
\* gets a higher band
C11BandOfLevel ==
    pc = "returned" =>
        /\ ret.desc \in 1..7
        /\ BandLow[ret.desc] <= craziness_level /\ craziness_level <= BandHigh[ret.desc]
        /\ Cardinality({b \in 1..7 : BandLow[b] <= craziness_level
                                      /\ craziness_level <= BandHigh[b]}) = 1
        /\ \A l \in MinLevel..craziness_level : get_craziness_settings(l).desc <= ret.desc

\* the first level of the second band
C11Witness ==
    pc = "returned" /\ craziness_level = 16 /\ ret.desc = 2

\* C12: the temperature is in [0.40, 1.40] and top_p in [0.65, 0.95]; level 1
\* gives 0.40 and 0.95, level 100 gives 1.40 and 0.65; the temperature never
\* decreases and top_p never increases with the level
C12SamplingRange ==
    pc = "returned" =>
        /\ 40 <= ret.temp /\ ret.temp <= 140
        /\ 65 <= ret.top_p /\ ret.top_p <= 95
        /\ craziness_level = 1 => ret.temp = 40 /\ ret.top_p = 95
        /\ craziness_level = 100 => ret.temp = 140 /\ ret.top_p = 65
        /\ \A l \in MinLevel..craziness_level :
             /\ get_craziness_settings(l).temp <= ret.temp
             /\ get_craziness_settings(l).top_p >= ret.top_p

\* the wildest level
C12Witness ==
    pc = "returned" /\ craziness_level = 100 /\ ret.temp = 140 /\ ret.top_p = 65

(***************************************************************************)
(* Properties of main (Spec), continued.                                   *)
(***************************************************************************)
\* C13: naming-crazy.py calls generate_names only with a level in 1..100 that the
\* user entered; an entry that is no integer or out of range makes the prompt
\* come again
C13LevelBeforeGeneration ==
    script = "crazy" =>
        /\ \A i \in LogIndices("generate") :
             /\ log[i].data[1].level \in 1..100
             /\ \E j \in 1..(i - 1) :
                  log[j].op = "level" /\ log[j].data[1] = IntEntry(log[i].data[1].level)
        /\ \A j \in LogIndices("level") :
             LET e == log[j].data[1]
             IN  ~(e.isint /\ e.v \in 1..100) =>
                     IF j = Len(log) THEN pc = "craziness" ELSE log[j + 1].op = "level"

\* the user entered 101, then 100, and names were generated
C13Witness ==
    /\ script = "crazy"
    /\ Len(log) >= 3
    /\ log[1] = Event("level", "", "", <<IntEntry(101)>>)
    /\ log[2] = Event("level", "", "", <<IntEntry(100)>>)
    /\ log[3].op = "generate"

\* the position of a name in the processing order
PositionOf(n) == CHOOSE i \in 1..Len(final_names_for_critique) : final_names_for_critique[i] = n

\* names are in ascending rank, names without a rank last, ties in processing order
OrderedByRank(names, ranking) ==
    \A i, j \in 1..Len(names) :
        i < j =>
            \/ RankOf(names[i], ranking) < RankOf(names[j], ranking)
            \/ /\ RankOf(names[i], ranking) = RankOf(names[j], ranking)
               /\ PositionOf(names[i]) < PositionOf(names[j])

\* C14: in naming-crazy.py, after a non-empty ranking the report's name blocks are
\* in ascending global rank (names matched without regard to case), names absent
\* from the ranking after the ranked ones in processing order; without a ranking
\* the report keeps the processing order.  The sort never ends the run
C14ReportOrder ==
    script = "crazy" =>
        /\ pc # "crashed_sort"
        /\ report.written =>
             IF final_ranked_order_from_cro # <<>>
             THEN OrderedByRank(report.names, final_ranked_order_from_cro)
             ELSE report.names = final_names_for_critique

\* C15: in naming_engine.py, once generation produced a name the run reaches the
\* critique stage with at least one name; if the web check rejected every generated
\* name, the first MAX_NAMES_TO_CRITIQUE generated names are taken
C15ReachesCritique ==
    (script = "engine" /\ initial_generated_names # <<>> /\ pc \notin SelectionPcs) =>
        /\ pc # "crashed_check"
        /\ final_names_for_critique # <<>>
        /\ (\A i \in 1..Len(initial_generated_names) :
                initial_generated_names[i] \in rejected)
              => final_names_for_critique =
                     SubSeq(initial_generated_names, 1,
                            Min(MAX_NAMES_TO_CRITIQUE, Len(initial_generated_names)))

\* the web check was off when the filter stage began
InactiveAtStart ==
    \/ script = "crazy"
    \/ ~GOOGLE_API_CONFIGURED /\ LogIndices("check") = {}

\* the names of the critic calls so far, one per name, in call order
CritiquedNames ==
    LET is == {i \in LogIndices("critique") : log[i].critic = CRITIC_PERSONALITIES[1]}
    IN  [k \in 1..Cardinality(is) |->
            log[CHOOSE i \in is : Cardinality({i2 \in is : i2 <= i}) = k].name]

\* C16: when the web check is off at the start of the filter stage, the names
\* selected for the critics are the first min(MAX_NAMES_TO_CRITIQUE, n) generated
\* names in generation order, and the critics are called on them in that order
C16FirstGeneratedNames ==
    (InactiveAtStart /\ pc \notin SelectionPcs /\ initial_generated_names # <<>>) =>
        LET k == Min(MAX_NAMES_TO_CRITIQUE, Len(initial_generated_names))
        IN  /\ final_names_for_critique = SubSeq(initial_generated_names, 1, k)
            /\ Len(CritiquedNames) <= k
            /\ CritiquedNames = SubSeq(initial_generated_names, 1, Len(CritiquedNames))
            /\ pc \in {"done", "report", "rank"} => Len(CritiquedNames) = k

\* name-creator.py without the web check: more names generated than the cap, and
\* the critics were called on the first ones
C16Witness ==
    /\ script = "creator"
    /\ InactiveAtStart
    /\ pc = "done"
    /\ Len(initial_generated_names) > MAX_NAMES_TO_CRITIQUE
    /\ initial_generated_names[1] # initial_generated_names[Len(initial_generated_names)]
    /\ Len(CritiquedNames) = MAX_NAMES_TO_CRITIQUE

(***************************************************************************)
(* SpecSynth: one call of run_synthesis_critique on every response of      *)
(* SynthResponses, in naming_engine.py and naming-crazy.py.                *)
(***************************************************************************)
\* objects with or without a summary and a verdict, an unterminated object, a
\* verdict outside any object
SynthBodies ==
    {<<>>, <<"{", "m", "v", "}">>, <<"{", "m", "}">>, <<"{", "v", "}">>, <<"{", "}">>,
     <<"{", "m", "v">>, <<"v">>}

SynthTexts ==
    {pre \o op \o b \o cl \o post :
        pre \in Prose, op \in Opens, b \in SynthBodies, cl \in Closes, post \in Prose}

SynthResponses == {OkResp(t) : t \in SynthTexts} \cup {RaiseResp, NoKeyResp}

InitSynth ==
    /\ script \in {"engine", "crazy"}
    /\ pc = "call"
    /\ GOOGLE_API_CONFIGURED = FALSE
    /\ MainLocalsUnset
    /\ content \in SynthResponses
    /\ json_str = NoCand
    /\ ret = NoRet

CallSynthesis ==
    /\ pc = "call"
    /\ pc' = "returned"
    /\ json_str' = IF content.kind = "ok"
                   THEN JsonCandidate(script, Strip(content.text)) ELSE NoCand
    /\ ret' = run_synthesis_critique(script, content)
    /\ UNCHANGED <<script, GOOGLE_API_CONFIGURED, selectVars, loopVars, report, log, content>>

NextSynth == CallSynthesis

SpecSynth == InitSynth /\ [][NextSynth]_vars

(***************************************************************************)
(* Properties of run_synthesis_critique (SpecSynth).                       *)
(***************************************************************************)
\* C17 as stated: when no JSON object can be parsed from the synthesis response,
\* the function returns the raw response text as the summary and a null verdict
C17RawTextAndNullVerdict ==
    NoJsonParsed => ret.summary = CritRaw(Strip(content.text)) /\ ret.verdict = CritNone

\* C17 (amended): when no JSON object can be parsed, the summary is the stripped
\* response text, or "Synthesis parsing failed." when that text is empty; the
\* verdict is never null: it is "Verdict unclear", or in naming-crazy.py the verdict
\* a pattern finds in the text
C17RawTextAndVerdictUnclear ==
    NoJsonParsed =>
        LET c == Strip(content.text)
        IN  /\ ret.kind = "return"
            /\ ret.summary = IF c = <<>> THEN CritFailed ELSE CritRaw(c)
            /\ ret.verdict # CritNone
            /\ ret.verdict \in {VerdictUnclear, VerdictMatched}
            /\ ret.verdict = VerdictMatched =>
                 script = "crazy" /\ \E i \in 1..Len(c) : c[i] = "v"
            /\ script = "engine" => ret.verdict = VerdictUnclear

\* an unterminated object in naming_engine.py
C17Witness ==
    /\ NoJsonParsed
    /\ script = "engine"
    /\ content.text = <<"{", "m", "v">>
    /\ ret = SynthReturned(CritRaw(<<"{", "m", "v">>), VerdictUnclear)

(***************************************************************************)
(* SpecGenerate: the generation stage of main in naming_engine.py and      *)
(* naming-crazy.py, on every response of GenResponses; content keeps the   *)
(* response of the latest call.                                            *)
(***************************************************************************)
InitGenerate ==
    /\ script \in {"engine", "crazy"}
    /\ pc = "generate"
    /\ GOOGLE_API_CONFIGURED = FALSE
    /\ initial_generated_names = <<>>
    /\ approved_names = <<>>
    /\ craziness_level = IF script = "crazy" THEN 1 ELSE 0
    /\ gi = 1
    /\ fi = 0
    /\ rejected = {}
    /\ final_names_for_critique = <<>>
    /\ ni = 0
    /\ ci = 0
    /\ current_name_critiques = <<>>
    /\ all_results_for_report = <<>>
    /\ data_for_global_ranker = <<>>
    /\ final_ranked_order_from_cro = <<>>
    /\ report = NoReport
    /\ log = <<>>
    /\ content = [kind |-> "raise", names |-> <<>>]
    /\ json_str = NoCand
    /\ ret = NoRet

CallGenerate ==
    /\ pc = "generate"
    /\ \E resp \in GenResponses :
         /\ GenerateWith(resp)
         /\ content' = resp
    /\ UNCHANGED <<script, GOOGLE_API_CONFIGURED, approved_names, craziness_level, fi,
                   rejected, final_names_for_critique, loopVars, report, json_str, ret>>

NextGenerate == CallGenerate

SpecGenerate == InitGenerate /\ [][NextGenerate]_vars

(***************************************************************************)
(* Properties of generate_names and of the merged list (SpecGenerate).     *)
(***************************************************************************)
\* the index of the first occurrence of x in s
FirstIndex(x, s) == CHOOSE i \in 1..Len(s) : s[i] = x /\ \A j \in 1..(i - 1) : s[j] # x

\* t holds the first n distinct elements of s, in order of first occurrence
FirstDistinct(t, s, n) ==
    /\ Cardinality({t[i] : i \in 1..Len(t)}) = Len(t)
    /\ Len(t) = Min(n, Cardinality({s[i] : i \in 1..Len(s)}))
    /\ \A i \in 1..Len(t) : InSeq(t[i], s)
    /\ \A i, j \in 1..Len(t) : i < j => FirstIndex(t[i], s) < FirstIndex(t[j], s)
    /\ \A i \in 1..Len(t), k \in 1..Len(s) : k < FirstIndex(t[i], s) => InSeq(s[k], t)

RECURSIVE Concat(_)
Concat(ss) == IF ss = <<>> THEN <<>> ELSE Head(ss) \o Concat(Tail(ss))

\* the calls of generate_names made so far, in call order
Batches == SelectSeq(log, LAMBDA e : e.op = "generate")

\* C18: in naming_engine.py and naming-crazy.py generate_names returns at most
\* count names, pairwise distinct and in order of first occurrence in the model's
\* output; the list naming-crazy.py merges from its three batches is pairwise
\* distinct and in order of first occurrence too
C18DistinctInOrder ==
    /\ log # <<>> =>
         LET returned == log[Len(log)].data[1].names
         IN  /\ Len(returned) <= GenCount(script)
             /\ FirstDistinct(returned, content.names, GenCount(script))
    /\ (script = "crazy" /\ pc # "generate") =>
         LET all == Concat([i \in 1..Len(Batches) |-> Batches[i].data[1].names])
         IN  /\ Len(Batches) = 3
             /\ FirstDistinct(initial_generated_names, all, Len(all))

\* naming-crazy.py: a response that repeats a name, and batches that do
C18Witness ==
    /\ script = "crazy"
    /\ pc # "generate"
    /\ Len(Batches) = 3
    /\ content.names = <<"b", "b", "a">>
    /\ Batches[1].data[1].names = <<"a">>
    /\ Batches[2].data[1].names = <<"a">>
    /\ Batches[3].data[1].names = <<"b">>
    /\ initial_generated_names = <<"a", "b">>

(***************************************************************************)
(* Properties of main (Spec): generation.                                  *)
(***************************************************************************)
\* C19: generate_names returns an empty list when the model call raises or its
\* output holds no name; when the generated list is empty the run ends with no web
\* check, critique, synthesis or ranking call and no report; in naming-crazy.py
\* the list is empty only when all three batches are
C19NoNamesEndsRun ==
    /\ \A i \in LogIndices("generate") :
         LET g == log[i].data[1]
         IN  (g.raised \/ g.nolines) => g.names = <<>>
    /\ (Len(Batches) = NumBatches(script) /\ initial_generated_names = <<>>) =>
         /\ pc = "done"
         /\ \A i \in 1..Len(log) : log[i].op \in {"level", "generate"}
         /\ ~report.written
         /\ \A i \in 1..Len(Batches) : Batches[i].data[1].names = <<>>
    /\ (Len(Batches) = NumBatches(script)
          /\ \A i \in 1..Len(Batches) : Batches[i].data[1].names = <<>>)
         => initial_generated_names = <<>> /\ pc = "done"

\* naming-crazy.py: the model call raised in all three batches
C19Witness ==
    /\ script = "crazy"
    /\ Len(Batches) = 3
    /\ \A i \in 1..3 : Batches[i].data[1].raised
    /\ pc = "done"
    /\ initial_generated_names = <<>>

\* C20: critique_name_with_personality, run_synthesis_critique and
\* run_global_ranking never let an exception reach main, whatever the model call
\* does
C20WrappersNeverPropagate ==
    pc \notin {"crashed_critique", "crashed_synth", "crashed_rank"}

(***************************************************************************)
(* SpecCheck: one call of check_name_online_google_api on every outcome of *)
(* the search request, in each script, with the flag set or not; content   *)
(* keeps the outcome of the request.                                       *)
(***************************************************************************)
InitCheck ==
    /\ script \in Scripts
    /\ pc = "call"
    /\ GOOGLE_API_CONFIGURED \in BOOLEAN
    /\ MainLocalsUnset
    /\ content \in SearchRequests
    /\ json_str = NoCand
    /\ ret = CheckResult(FALSE, GOOGLE_API_CONFIGURED, FALSE)

CallCheck ==
    /\ pc = "call"
    /\ LET r == RequestResult(script, GOOGLE_API_CONFIGURED, content)
       IN  /\ ret' = r
           /\ GOOGLE_API_CONFIGURED' = r.configured
           /\ pc' = IF r.propagate THEN "propagated" ELSE "returned"
    /\ UNCHANGED <<script, selectVars, loopVars, report, log, content, json_str>>

NextCheck == CallCheck

SpecCheck == InitCheck /\ [][NextCheck]_vars

(***************************************************************************)
(* Properties of check_name_online_google_api (SpecCheck).                 *)
(***************************************************************************)
\* C21: check_name_online_google_api never lets an exception out: on every outcome
\* of the search request, an HttpError whose body is not JSON included, it
\* returns a pair, and on an API error the pair says "not problematic"
C21FailsOpen ==
    pc # "call" =>
        /\ pc = "returned"
        /\ ~ret.propagate
        /\ content.kind # "result" => ~ret.problematic

(***************************************************************************)
(* Properties of main (Spec): rejected names, critique entries, bounds.    *)
(***************************************************************************)
\* C22: in name-creator.py a name the web check reported problematic is never
\* sent to the critics: no rejected name is in final_names_for_critique, whatever
\* the check outcomes, the check being disabled mid-run included
C22RejectedNeverCritiqued ==
    script = "creator" =>
        \A i \in 1..Len(final_names_for_critique) :
            final_names_for_critique[i] \notin rejected

\* the block of each name of the report holds one entry per persona, in the order
\* of CRITIC_PERSONALITIES, with the persona's name and emoji
BlocksHoldEachPersona ==
    report.written =>
        \A i \in 1..Len(all_results_for_report) :
            LET cs == all_results_for_report[i].critiques
            IN  /\ Len(cs) = Len(CRITIC_PERSONALITIES)
                /\ \A k \in 1..Len(cs) :
                     /\ cs[k].critic_name = CRITIC_PERSONALITIES[k]
                     /\ cs[k].emoji = Emoji(script, CRITIC_PERSONALITIES[k])

\* every persona was asked about every name of the report
NoPersonaSkipped ==
    report.written =>
        \A i \in 1..Len(report.names), k \in 1..Len(CRITIC_PERSONALITIES) :
            \E e \in LogIndices("critique") :
                log[e].name = report.names[i] /\ log[e].critic = CRITIC_PERSONALITIES[k]

\* no persona was asked twice about a name
NoPersonaAskedTwice ==
    \A i, j \in LogIndices("critique") :
        (log[i].name = log[j].name /\ log[i].critic = log[j].critic) => i = j

\* C23: every name in the report carries exactly one critique entry per persona of
\* CRITIC_PERSONALITIES, in the list's order, labelled with the persona's name and
\* emoji; no persona is skipped or asked twice for the same name
C23OneEntryPerPersona ==
    /\ BlocksHoldEachPersona
    /\ NoPersonaSkipped
    /\ NoPersonaAskedTwice

(***************************************************************************)
(* Properties of main (SpecLive): termination within bounded calls.        *)
(***************************************************************************)
Calls(op) == Cardinality(LogIndices(op))

\* main has returned or an exception has left it
Terminated ==
    pc \in {"done", "crashed_check", "crashed_critique", "crashed_synth",
            "crashed_rank", "crashed_sort", "crashed_report"}

\* generation calls: 1, or 3 in naming-crazy.py; critiques: one per persona for
\* each of at most MAX_NAMES_TO_CRITIQUE names; synthesis calls: one per name in
\* naming_engine.py and naming-crazy.py; one ranking in naming-crazy.py; web
\* checks: no more than generated names
CallsWithinBounds ==
    /\ Calls("generate") <= (IF script = "crazy" THEN 3 ELSE 1)
    /\ Calls("critique") <= MAX_NAMES_TO_CRITIQUE * Len(CRITIC_PERSONALITIES)
    /\ Calls("synth") <= (IF script = "creator" THEN 0 ELSE MAX_NAMES_TO_CRITIQUE)
    /\ Calls("rank") <= (IF script = "crazy" THEN 1 ELSE 0)
    /\ Calls("check") <= Len(initial_generated_names)
    /\ script = "crazy" => Calls("check") = 0

====
